---- MODULE Spec2Model ----
(***************************************************************************)
(* A model of chord_generator/chord.py: the note resolver getFrequency     *)
(* (with _getSemitoneShift) and the chord synthesizer                      *)
(* generateChordsFromFrequencies.                                          *)
(*                                                                         *)
(* Conventions of the model                                                *)
(*   - A Python value that may be None is a sequence of length 0 (None)    *)
(*     or 1 (the value): None == <<>>, Some(v) == <<v>>.                   *)
(*   - A Python str is a sequence of one-character strings.                *)
(*   - A float is a fixed-point integer.  Weights are counted in tenths    *)
(*     (WUnit), sines in thousandths (SUnit), so a sample is counted in    *)
(*     1/Unit, Unit == WUnit * SUnit.  Durations are counted in ticks of   *)
(*     1/TicksPerSecond second, a little more than half a sample period,   *)
(*     so that int(sampleRate * duration) truncates.  Frequencies          *)
(*     are counted in eighths of the sample rate (5512.5 Hz), so that the  *)
(*     sine is only ever taken at multiples of pi/4.                       *)
(*   - A frequency returned by getFrequency is kept exactly, as the pair   *)
(*     of the reference pitch and the exponent numerator:                  *)
(*     [ref |-> 440, twelfths |-> e] stands for 440 * 2^(e/12).            *)
(***************************************************************************)
EXTENDS Integers, Sequences, FiniteSets, TLC

VARIABLES
    \* ---- getFrequency(noteName)
    noteName,           \* the argument: None or Some(str)
    npc,                \* position in getFrequency
    note,               \* matched.groups()[0], None before the match
    octave,             \* int(matched.groups()[1]), None before the match
    key_number,         \* None before it is computed
    result,             \* the returned value: None or Some(frequency)
    nraised,            \* "" or the exception that left getFrequency
    warnings,           \* number of logger.warning calls
    \* ---- generateChordsFromFrequencies(chord_frequencies, durations, filename, weights)
    chord_frequencies,  \* sequence of chords, each a sequence of frequencies
    durations,          \* None or Some(sequence of durations)
    weights,            \* None or Some(sequence of None / Some(weight vector))
    coerces,            \* the interpreter's struct.pack takes a float (Python 2) or not (Python 3)
    pc,                 \* position in generateChordsFromFrequencies
    sec_durations,
    sample_durations,
    chord_weights,
    sine_wave,          \* the samples, in order (under SpecSeconds: as one run per chord)
    ci,                 \* index of the chord the synthesis loop is at
    x,                  \* index of the sample within that chord
    i,                  \* index of the write loop
    f_state,            \* the wave file: "none", "open", "closed"
    f_params,           \* None or Some(nframes) as given to setparams
    f_frames,           \* the frames handed to writeframes, in order (SpecSeconds: as runs)
    raised              \* "" or the exception that left the call

nvars == <<noteName, npc, note, octave, key_number, result, nraised, warnings>>
inputs == <<chord_frequencies, durations, weights, coerces>>
locals == <<sec_durations, sample_durations, chord_weights, sine_wave, ci, x, i>>
file == <<f_state, f_params, f_frames>>
svars == <<inputs, pc, locals, file, raised>>
vars == <<nvars, svars>>

None == <<>>
Some(v) == <<v>>

\* Python's truth value of an optional sequence: None and the empty sequence are false.
Truthy(o) == o # None /\ Len(o[1]) > 0

(***************************************************************************)
(* Bounds of the model.                                                    *)
(***************************************************************************)
MaxLen == 4        \* longest note name
MaxChords == 2     \* longest chord sequence

(***************************************************************************)
(* Resolutions of the fixed-point numbers.                                 *)
(***************************************************************************)
WUnit == 10                   \* a weight w stands for w / WUnit
SUnit == 1000                 \* a sine s stands for s / SUnit
Unit == WUnit * SUnit         \* a sample v stands for v / Unit
TicksPerSecond == 24000       \* a duration d stands for d / TicksPerSecond seconds

(***************************************************************************)
(* getFrequency                                                            *)
(***************************************************************************)
Letters == {"A", "B", "C", "D", "E", "F", "G"}
Accidentals == {"#", "b"}
DigitChars == <<"0", "1", "2", "3", "4", "5", "6", "7", "8", "9">>
IsDigit(c) == \E k \in 1..Len(DigitChars) : DigitChars[k] = c
DigitVal(c) == (CHOOSE k \in 1..Len(DigitChars) : DigitChars[k] = c) - 1

SEMITONES_FROM_C == [A |-> 9, B |-> 11, C |-> 0, D |-> 2, E |-> 4, F |-> 5, G |-> 7]

Contains(s, c) == \E k \in 1..Len(s) : s[k] = c

\* _getSemitoneShift (lines 18-24): the table entry of the letter, plus one
\* for '#' or minus one for 'b', reduced modulo 12.
getSemitoneShift(n) ==
    LET adj == IF Contains(n, "#") THEN 1 ELSE IF Contains(n, "b") THEN -1 ELSE 0
    IN  (SEMITONES_FROM_C[n[1]] + adj) % 12

\* \d+ at position k: the longest run of digits starting there (greedy).
RECURSIVE DigitRun(_, _)
DigitRun(s, k) ==
    IF k <= Len(s) /\ IsDigit(s[k]) THEN <<s[k]>> \o DigitRun(s, k + 1) ELSE <<>>

\* re.match('([A-G](?:#|b)?)(\d+)', s): anchored at the start only; None or
\* Some(<<group 1, group 2>>).
ReMatch(s) ==
    IF Len(s) = 0 \/ s[1] \notin Letters THEN None
    ELSE IF Len(s) >= 2 /\ s[2] \in Accidentals /\ DigitRun(s, 3) # <<>>
         THEN Some(<<SubSeq(s, 1, 2), DigitRun(s, 3)>>)
    ELSE IF DigitRun(s, 2) # <<>>
         THEN Some(<<SubSeq(s, 1, 1), DigitRun(s, 2)>>)
    ELSE None

\* int(octave) of a run of decimal digits.
RECURSIVE ParseInt(_)
ParseInt(ds) ==
    IF ds = <<>> THEN 0
    ELSE 10 * ParseInt(SubSeq(ds, 1, Len(ds) - 1)) + DigitVal(ds[Len(ds)])

KeyNoOffset(n, o) == getSemitoneShift(n) + ((o - 1) * 12)

KeyNumber(n, o) == 4 + getSemitoneShift(n) + ((o - 1) * 12)

\* math.pow(2, (key_number-49)/12) * 440.0, kept exactly.
Frequency(k) == [ref |-> 440, twelfths |-> k - 49]

MissingOnlyNone(name) == name = None

\* `not noteName`
IsMissing(name) == name = None \/ name[1] = <<>>

\* lines 35-37
CheckMissing ==
    /\ npc = "entry"
    /\ IF IsMissing(noteName)
       THEN /\ warnings' = warnings + 1
            /\ result' = None
            /\ npc' = "returned"
       ELSE /\ npc' = "match"
            /\ UNCHANGED <<warnings, result>>
    /\ UNCHANGED <<noteName, note, octave, key_number, nraised, svars>>

\* lines 40-45
Match ==
    /\ npc = "match"
    /\ LET matched == ReMatch(noteName[1])
       IN  IF matched = None
           THEN /\ nraised' = "ValueError"
                /\ npc' = "raised"
                /\ UNCHANGED <<note, octave>>
           ELSE /\ note' = Some(matched[1][1])
                /\ octave' = Some(ParseInt(matched[1][2]))
                /\ npc' = "compute"
                /\ UNCHANGED nraised
    /\ UNCHANGED <<noteName, key_number, result, warnings, svars>>

\* lines 49-54
Compute ==
    /\ npc = "compute"
    /\ key_number' = Some(KeyNumber(note[1], octave[1]))
    /\ result' = Some(Frequency(KeyNumber(note[1], octave[1])))
    /\ npc' = "returned"
    /\ UNCHANGED <<noteName, note, octave, nraised, warnings, svars>>

Alphabet == Letters \cup Accidentals \cup {"H", "0", "4", "5"}
Strings == UNION {[1..n -> Alphabet] : n \in 0..MaxLen}

SynthIdle ==
    /\ chord_frequencies = <<>> /\ durations = None /\ weights = None
    /\ coerces = TRUE /\ pc = "idle"
    /\ sec_durations = <<>> /\ sample_durations = <<>> /\ chord_weights = <<>>
    /\ sine_wave = <<>> /\ ci = 0 /\ x = 0 /\ i = 0
    /\ f_state = "none" /\ f_params = None /\ f_frames = <<>>
    /\ raised = ""

InitNote ==
    /\ noteName \in {None} \cup {Some(s) : s \in Strings}
    /\ npc = "entry"
    /\ note = None /\ octave = None /\ key_number = None /\ result = None
    /\ nraised = "" /\ warnings = 0
    /\ SynthIdle

NextNote == CheckMissing \/ Match \/ Compute

SpecNote == InitNote /\ [][NextNote]_vars

(***************************************************************************)
(* generateChordsFromFrequencies                                           *)
(***************************************************************************)
sampleRate == 44100
amplitude == 8000
SHRT_MIN == -32768
SHRT_MAX == 32767

\* math.sin at the multiples of pi/4, in thousandths.
SinTab == <<0, 707, 1000, 707, 0, -707, -1000, -707>>

\* math.sin(2*math.pi*freq*(x/sampleRate)) for freq eighths of the sample rate.
Sin(freq, n) == SinTab[((freq * n) % 8) + 1]

Min(a, b) == IF a <= b THEN a ELSE b

\* the terms j..end of: for (freq, coefficient) in zip(freqs, weighting): sample += ...
RECURSIVE Terms(_, _, _, _)
Terms(freqs, weighting, n, j) ==
    IF j > Min(Len(freqs), Len(weighting)) THEN 0
    ELSE weighting[j] * Sin(freqs[j], n) + Terms(freqs, weighting, n, j + 1)

ChordSampleUnweighted(freqs, weighting, n) ==
    Terms(freqs, [j \in 1..Len(weighting) |-> WUnit], n, 1)

\* lines 89-91: the sample of a chord at index n
ChordSample(freqs, weighting, n) == Terms(freqs, weighting, n, 1)

SampleCountRounded(d) == (sampleRate * d + TicksPerSecond \div 2) \div TicksPerSecond

\* int(sampleRate*duration), for a duration >= 0
SampleCount(d) == (sampleRate * d) \div TicksPerSecond

UnnormalisedWeights(n) == [j \in 1..n |-> WUnit]

\* [1.0/len(fs)] * len(fs)
DefaultWeights(n) == [j \in 1..n |-> WUnit \div n]

RECURSIVE Sum(_)
Sum(s) == IF s = <<>> THEN 0 ELSE s[1] + Sum(Tail(s))

\* int() of a float: truncation toward zero of a / b, b > 0
TruncDiv(a, b) == IF a >= 0 THEN a \div b ELSE -((-a) \div b)

ToShortFloor(v) == (v * amplitude) \div (2 * Unit)

\* the integer struct.pack('h', frequency*amplitude/2) encodes where it takes a float
ToShort(v) == TruncDiv(v * amplitude, 2 * Unit)

\* the struct.error of struct.pack('h', frequency*amplitude/2), "" when there is none
PackError(v) ==
    IF ~coerces THEN "struct.error: required argument is not an integer"
    ELSE IF ToShort(v) < SHRT_MIN \/ ToShort(v) > SHRT_MAX
         THEN "struct.error: short format requires SHRT_MIN <= number <= SHRT_MAX"
    ELSE ""

\* lines 71-74
Validate ==
    /\ pc = "validate"
    /\ IF Truthy(durations) /\ Len(durations[1]) # Len(chord_frequencies)
       THEN raised' = "ValueError" /\ pc' = "raised"
       ELSE IF Truthy(weights) /\ Len(weights[1]) # Len(chord_frequencies)
            THEN raised' = "ValueError" /\ pc' = "raised"
            ELSE raised' = raised /\ pc' = "setup"
    /\ UNCHANGED <<inputs, locals, file, nvars>>

\* lines 77-82
Setup ==
    /\ pc = "setup"
    /\ LET secs == IF Truthy(durations) THEN durations[1]
                   ELSE [k \in 1..Len(chord_frequencies) |-> TicksPerSecond]
       IN  /\ sec_durations' = secs
           /\ sample_durations' = [k \in 1..Len(secs) |-> SampleCount(secs[k])]
    /\ sine_wave' = <<>>
    /\ chord_weights' = <<>>
    /\ pc' = "weights"
    /\ UNCHANGED <<inputs, ci, x, i, file, raised, nvars>>

\* lines 83-84
BuildChordWeights ==
    /\ pc = "weights"
    /\ chord_weights' =
          [k \in 1..Len(chord_frequencies) |->
              IF Truthy(weights) /\ Truthy(weights[1][k])
              THEN weights[1][k][1]
              ELSE DefaultWeights(Len(chord_frequencies[k]))]
    /\ pc' = "synth" /\ ci' = 1 /\ x' = 0
    /\ UNCHANGED <<inputs, sec_durations, sample_durations, sine_wave, i, file, raised, nvars>>

\* zip(chord_frequencies, sample_durations, chord_weights) stops at the shortest
NChords == Min(Len(chord_frequencies), Min(Len(sample_durations), Len(chord_weights)))

\* lines 88-92: one iteration of the inner loop
SynthSample ==
    /\ pc = "synth" /\ ci <= NChords /\ x < sample_durations[ci]
    /\ sine_wave' = Append(sine_wave, ChordSample(chord_frequencies[ci], chord_weights[ci], x))
    /\ x' = x + 1
    /\ UNCHANGED <<inputs, pc, sec_durations, sample_durations, chord_weights, ci, i, file,
                   raised, nvars>>

\* line 87: the next chord, once range(sample_size) is exhausted
SynthNextChord ==
    /\ pc = "synth" /\ ci <= NChords /\ x >= sample_durations[ci]
    /\ ci' = ci + 1 /\ x' = 0
    /\ UNCHANGED <<inputs, pc, sec_durations, sample_durations, chord_weights, sine_wave, i,
                   file, raised, nvars>>

\* lines 88-92: the samples of one chord, for x in range(sample_size)
Segment(freqs, sample_size, weighting) ==
    [n \in 1..sample_size |-> ChordSample(freqs, weighting, n - 1)]

\* lines 87-92: the samples of the chords k.. of zip(cs, sizes, ws), concatenated
RECURSIVE BufferFrom(_, _, _, _)
BufferFrom(cs, sizes, ws, k) ==
    IF k > Min(Len(cs), Min(Len(sizes), Len(ws))) THEN <<>>
    ELSE Segment(cs[k], sizes[k], ws[k]) \o BufferFrom(cs, sizes, ws, k + 1)

Buffer(cs, sizes, ws) == BufferFrom(cs, sizes, ws, 1)

\* A run [period |-> <<p1, ..., pm>>, count |-> n] stands for the n values
\* p1, p2, ..., pm, p1, ... in this order.
RunsLen(runs) == Sum([k \in 1..Len(runs) |-> runs[k].count])

\* lines 87-92: the two nested loops as one step, each chord's samples kept as a
\* run: Sin(freq, n) depends on n % 8 alone, so the samples of a chord repeat
\* with period 8
SynthRuns ==
    /\ pc = "synth" /\ ci = 1 /\ ci <= NChords
    /\ sine_wave' =
          [k \in 1..NChords |->
              [period |-> Segment(chord_frequencies[k], 8, chord_weights[k]),
               count |-> sample_durations[k]]]
    /\ ci' = NChords + 1
    /\ UNCHANGED <<inputs, pc, sec_durations, sample_durations, chord_weights, x, i, file,
                   raised, nvars>>

\* line 96, reached when the outer loop is exhausted
OpenFile ==
    /\ pc = "synth" /\ ci > NChords
    /\ f_state' = "open"
    /\ pc' = "setparams"
    /\ UNCHANGED <<inputs, locals, f_params, f_frames, raised, nvars>>

\* lines 97-100
SetParams ==
    /\ pc = "setparams"
    /\ f_params' = Some(Sum(sample_durations))
    /\ i' = 0
    /\ pc' = "write"
    /\ UNCHANGED <<inputs, sec_durations, sample_durations, chord_weights, sine_wave, ci, x,
                   f_state, f_frames, raised, nvars>>

\* lines 101-104: one iteration of the write loop
WriteFrame ==
    /\ pc = "write" /\ i < Len(sine_wave)
    /\ LET v == sine_wave[i + 1]
       IN  IF PackError(v) # ""
           THEN /\ raised' = PackError(v)
                /\ pc' = "raised"
                /\ UNCHANGED <<i, f_frames>>
           ELSE /\ f_frames' = Append(f_frames, ToShort(v))
                /\ i' = i + 1
                /\ UNCHANGED <<pc, raised>>
    /\ UNCHANGED <<inputs, sec_durations, sample_durations, chord_weights, sine_wave, ci, x,
                   f_state, f_params, nvars>>

\* line 101: the write loop is exhausted
WriteDone ==
    /\ pc = "write" /\ i = Len(sine_wave)
    /\ pc' = "close"
    /\ UNCHANGED <<inputs, locals, file, raised, nvars>>

\* the positions of a run, within its count, whose value struct.pack refuses
Refused(run) ==
    {p \in 1..Min(Len(run.period), run.count) : PackError(run.period[p]) # ""}

PackedRun(run, n) ==
    [period |-> [p \in 1..Len(run.period) |-> ToShort(run.period[p])], count |-> n]

\* lines 101-104: the write loop as one step, over a buffer kept as runs
WriteRuns ==
    /\ pc = "write" /\ i = 0
    /\ LET bad == {k \in 1..Len(sine_wave) : Refused(sine_wave[k]) # {}}
       IN  IF bad = {}
           THEN /\ f_frames' = [k \in 1..Len(sine_wave) |->
                                   PackedRun(sine_wave[k], sine_wave[k].count)]
                /\ i' = RunsLen(sine_wave)
                /\ pc' = "close"
                /\ UNCHANGED raised
           ELSE LET k0 == CHOOSE k \in bad : \A m \in bad : k <= m
                    p0 == CHOOSE p \in Refused(sine_wave[k0]) :
                              \A q \in Refused(sine_wave[k0]) : p <= q
                    whole == [k \in 1..(k0 - 1) |->
                                 PackedRun(sine_wave[k], sine_wave[k].count)]
                IN  /\ f_frames' = IF p0 = 1 THEN whole
                                   ELSE Append(whole, PackedRun(sine_wave[k0], p0 - 1))
                    /\ i' = RunsLen(whole) + p0 - 1
                    /\ raised' = PackError(sine_wave[k0].period[p0])
                    /\ pc' = "raised"
    /\ UNCHANGED <<inputs, sec_durations, sample_durations, chord_weights, sine_wave, ci, x,
                   f_state, f_params, nvars>>

ReturnWithoutClose ==
    /\ pc = "close"
    /\ pc' = "done"
    /\ UNCHANGED <<inputs, locals, file, raised, nvars>>

\* lines 105-106
CloseFile ==
    /\ pc = "close"
    /\ f_state' = "closed"
    /\ pc' = "done"
    /\ UNCHANGED <<inputs, locals, f_params, f_frames, raised, nvars>>

(***************************************************************************)
(* The calls the model makes.                                              *)
(***************************************************************************)
Seqs(S, lo, hi) == UNION {[1..n -> S] : n \in lo..hi}

Chords == {<<1>>, <<2>>, <<1, 2>>}     \* 5512.5 Hz, 11025 Hz, and both
DurTicks == {1, 2}                     \* 1.8375 and 3.675 sample periods
DurSeconds == {1, TicksPerSecond, 2 * TicksPerSecond}

\* explicit weight vectors for a chord of n notes: uniform; quiet, of alternating
\* sign (0.1, -0.2, ...); loud (8.5 each)
ExplicitWeights(n) ==
    {[j \in 1..n |-> WUnit \div n],
     [j \in 1..n |-> IF j % 2 = 1 THEN j ELSE -j],
     [j \in 1..n |-> 85]}

WeightEntries(cs, k) ==
    {None} \cup (IF k <= Len(cs) THEN {Some(v) : v \in ExplicitWeights(Len(cs[k]))} ELSE {})

WeightSeqs(cs) ==
    UNION {{w \in [1..n -> UNION {WeightEntries(cs, k) : k \in 1..n}] :
               \A k \in 1..n : w[k] \in WeightEntries(cs, k)} : n \in 0..(MaxChords + 1)}

NoteIdle ==
    /\ noteName = None /\ npc = "idle"
    /\ note = None /\ octave = None /\ key_number = None /\ result = None
    /\ nraised = "" /\ warnings = 0

CallStart ==
    /\ coerces \in BOOLEAN
    /\ pc = "validate"
    /\ sec_durations = <<>> /\ sample_durations = <<>> /\ chord_weights = <<>>
    /\ sine_wave = <<>> /\ ci = 0 /\ x = 0 /\ i = 0
    /\ f_state = "none" /\ f_params = None /\ f_frames = <<>>
    /\ raised = ""
    /\ NoteIdle

\* short chords, explicit and default weights; durations of a few sample periods
Init ==
    /\ chord_frequencies \in Seqs(Chords, 0, MaxChords)
    /\ durations \in
          IF chord_frequencies = <<>>
          THEN {None} \cup {Some(d) : d \in Seqs(DurTicks, 0, 1)}
          ELSE {Some(d) : d \in Seqs(DurTicks, 1, MaxChords + 1)}
    /\ weights \in {None} \cup {Some(w) : w \in WeightSeqs(chord_frequencies)}
    /\ CallStart

Next ==
    \/ Validate
    \/ Setup
    \/ BuildChordWeights
    \/ SynthSample
    \/ SynthNextChord
    \/ OpenFile
    \/ SetParams
    \/ WriteFrame
    \/ WriteDone
    \/ CloseFile

Spec == Init /\ [][Next]_vars

\* two-note chords, explicit and default weights; durations omitted, empty, of
\* one tick or of whole seconds; sine_wave and f_frames are kept as runs
InitSeconds ==
    /\ chord_frequencies \in {[k \in 1..n |-> <<1, 2>>] : n \in 0..MaxChords}
    /\ durations \in {None} \cup {Some(d) : d \in Seqs(DurSeconds, 0, MaxChords + 1)}
    /\ weights \in {None} \cup {Some(w) : w \in WeightSeqs(chord_frequencies)}
    /\ CallStart

NextSeconds ==
    \/ Validate
    \/ Setup
    \/ BuildChordWeights
    \/ SynthRuns
    \/ OpenFile
    \/ SetParams
    \/ WriteRuns
    \/ CloseFile

SpecSeconds == InitSeconds /\ [][NextSeconds]_vars

\* getFrequency's key number for a note name the regex matches (lines 40-49)
KeyOf(s) == LET matched == ReMatch(s) IN KeyNumber(matched[1][1], ParseInt(matched[1][2]))

(***************************************************************************)
(* Properties of getFrequency, under SpecNote.                             *)
(***************************************************************************)
\* the decimal digits of n >= 0
RECURSIVE DecimalDigits(_)
DecimalDigits(n) ==
    IF n < 10 THEN <<DigitChars[n + 1]>>
    ELSE DecimalDigits(n \div 10) \o <<DigitChars[(n % 10) + 1]>>

\* the grammar Letter [Accidental] Digits, matched against the whole of s
WholeGrammar(s) ==
    /\ Len(s) >= 2
    /\ s[1] \in Letters
    /\ LET d == IF s[2] \in Accidentals THEN 3 ELSE 2
       IN  d <= Len(s) /\ \A k \in d..Len(s) : IsDigit(s[k])

\* C2: every non-empty note name that is not, as a whole, Letter [Accidental]
\* Digits is rejected with ValueError, and no frequency is computed for it.
C2_InvalidFormatRejected ==
    (/\ npc \in {"returned", "raised"}
     /\ noteName # None /\ noteName[1] # <<>>
     /\ ~WholeGrammar(noteName[1]))
        => (npc = "raised" /\ nraised = "ValueError" /\ result = None)

\* C3: a sharp raises the key number of the plain letter at the same octave by
\* exactly 1 and a flat lowers it by exactly 1, B# and Cb included.
C3_SemitoneStep ==
    (npc = "returned" /\ note # None /\ Len(note[1]) = 2)
        => key_number[1] = KeyOf(<<note[1][1]>> \o DecimalDigits(octave[1]))
                              + (IF note[1][2] = "#" THEN 1 ELSE -1)

TableOffset(l) ==
    CASE l = "C" -> 0 [] l = "D" -> 2 [] l = "E" -> 4 [] l = "F" -> 5
      [] l = "G" -> 7 [] l = "A" -> 9 [] l = "B" -> 11

ExpectedKey(n, o) ==
    LET adj == IF Len(n) = 1 THEN 0 ELSE IF n[2] = "#" THEN 1 ELSE -1
    IN  4 + ((TableOffset(n[1]) + adj) % 12) + (o - 1) * 12

\* C4: for every valid note name the key number is 4 + semitone offset +
\* (octave-1)*12 with the table C=0 D=2 E=4 F=5 G=7 A=9 B=11 (offset taken mod 12),
\* the frequency is 440 * 2^((key-49)/12), A4 has key 49 and frequency exactly 440,
\* and the same note one octave higher has a key 12 higher (frequency doubled).
C4_KeyIndex ==
    (npc = "returned" /\ note # None)
        => /\ key_number = Some(ExpectedKey(note[1], octave[1]))
           /\ result = Some([ref |-> 440, twelfths |-> key_number[1] - 49])
           /\ (note[1] = <<"A">> /\ octave[1] = 4
                  => key_number[1] = 49 /\ result[1].twelfths = 0)
           /\ KeyOf(note[1] \o DecimalDigits(octave[1] + 1)) = key_number[1] + 12

C4_Witness ==
    /\ npc = "returned"
    /\ noteName = Some(<<"A", "4">>)
    /\ key_number = Some(49)
    /\ result = Some([ref |-> 440, twelfths |-> 0])

\* C7: an empty or absent note name never reaches the regex, raises nothing and
\* returns None after one warning.
C7_MissingInput ==
    (noteName = None \/ noteName = Some(<<>>))
        => /\ npc \in {"entry", "returned"}
           /\ nraised = "" /\ result = None
           /\ note = None /\ octave = None /\ key_number = None
           /\ (npc = "returned" => warnings = 1)

C7_Witness ==
    /\ noteName = Some(<<>>)
    /\ npc = "returned" /\ result = None /\ nraised = "" /\ warnings = 1

(***************************************************************************)
(* Properties of generateChordsFromFrequencies.                            *)
(***************************************************************************)
Abs(n) == IF n < 0 THEN -n ELSE n

RECURSIVE AbsSum(_)
AbsSum(w) == IF w = <<>> THEN 0 ELSE Abs(w[1]) + AbsSum(Tail(w))

\* chord k has an explicit weight vector
HasEntry(k) == weights # None /\ k <= Len(weights[1]) /\ weights[1][k] # None

\* C1: a durations or weights sequence that is given, the empty one included, and
\* whose length is not the number of chords makes the call raise ValueError
\* before a sample is synthesized and before the file is opened.
C1_LengthMismatchRaises ==
    (/\ pc # "validate"
     /\ \/ durations # None /\ Len(durations[1]) # Len(chord_frequencies)
        \/ weights # None /\ Len(weights[1]) # Len(chord_frequencies))
        => (pc = "raised" /\ raised = "ValueError" /\ sine_wave = <<>> /\ f_state = "none")

\* the frame count the claim gives: 44100 per chord without durations, else
\* int(44100 * duration) per chord
ExpectedFrames ==
    Sum([k \in 1..Len(chord_frequencies) |->
            IF durations = None \/ durations[1] = <<>> THEN 44100
            ELSE (44100 * durations[1][k]) \div TicksPerSecond])

\* C5 (SpecSeconds): the frame count given to setparams is the sum over the chords
\* of int(44100 * duration), 44100 per chord without durations; a call that
\* returns has written exactly that many frames; durations [1, 2] give 132300.
C5_FrameCount ==
    /\ f_params # None => f_params[1] = ExpectedFrames
    /\ pc = "done" => f_params # None /\ RunsLen(f_frames) = ExpectedFrames
    /\ (pc = "done" /\ durations = Some(<<TicksPerSecond, 2 * TicksPerSecond>>))
          => RunsLen(f_frames) = 132300

C5_Witness ==
    /\ pc = "done"
    /\ durations = Some(<<TicksPerSecond, 2 * TicksPerSecond>>)
    /\ f_params = Some(132300)
    /\ RunsLen(f_frames) = 132300

\* the weights the claim gives chord k: its explicit vector, else 1/n each
ExpectedWeights(k) ==
    IF HasEntry(k) THEN weights[1][k][1]
    ELSE [j \in 1..Len(chord_frequencies[k]) |-> WUnit \div Len(chord_frequencies[k])]

UniformOrDefault(k) ==
    HasEntry(k) =>
        \A j \in 1..Len(weights[1][k][1]) :
            weights[1][k][1][j] * Len(chord_frequencies[k]) = WUnit

\* C6: a chord without an explicit weight vector is synthesized with 1/n per note,
\* a chord with one is synthesized with that vector, and when every explicit
\* vector is the uniform one the buffer is, sample by sample, that of the call
\* with default weights.
C6_DefaultWeights ==
    /\ pc \in {"synth", "setparams", "write", "done"} \/ f_state # "none"
          => /\ Len(chord_weights) = Len(chord_frequencies)
             /\ \A k \in 1..Len(chord_frequencies) : chord_weights[k] = ExpectedWeights(k)
    /\ f_state # "none"
          => /\ sine_wave = Buffer(chord_frequencies, sample_durations,
                                   [k \in 1..Len(chord_frequencies) |-> ExpectedWeights(k)])
             /\ (\A k \in 1..Len(chord_frequencies) : UniformOrDefault(k))
                   => sine_wave =
                        Buffer(chord_frequencies, sample_durations,
                               [k \in 1..Len(chord_frequencies) |->
                                   [j \in 1..Len(chord_frequencies[k]) |->
                                       WUnit \div Len(chord_frequencies[k])]])

C6_Witness ==
    /\ pc = "done"
    /\ chord_frequencies = <<(<<1, 2>>)>>
    /\ weights = Some(<<Some(<<5, 5>>)>>)
    /\ sine_wave = <<0, 8535, 5000>>

\* C8: the buffer is complete before the file is opened and never changes after;
\* the header is set on the open file before any frame; each write appends the
\* frame of the next sample of the buffer, to the open file with its header set;
\* nothing is written after the close; the call returns only with the file
\* closed and holding one frame per sample.
C8_Order ==
    /\ [](pc = "done" => /\ f_state = "closed" /\ f_params # None
                         /\ Len(f_frames) = Len(sine_wave)
                         /\ sine_wave = Buffer(chord_frequencies, sample_durations, chord_weights))
    /\ [][/\ (f_state = "none" /\ f_state' # "none")
                => /\ f_state' = "open" /\ f_params = None /\ f_frames = <<>>
                   /\ sine_wave = Buffer(chord_frequencies, sample_durations, chord_weights)
          /\ sine_wave' # sine_wave => f_state = "none" /\ f_state' = "none"
          /\ f_params' # f_params => f_state = "open" /\ f_frames = <<>> /\ f_frames' = <<>>
          /\ f_frames' # f_frames
                => /\ f_state = "open" /\ f_state' = "open"
                   /\ f_params # None /\ f_params' = f_params
                   /\ Len(f_frames) < Len(sine_wave)
                   /\ Len(f_frames') = Len(f_frames) + 1
                   /\ SubSeq(f_frames', 1, Len(f_frames)) = f_frames
          /\ f_state = "closed" => UNCHANGED file
          /\ (f_state = "open" /\ f_state' # "open")
                => f_state' = "closed" /\ Len(f_frames) = Len(sine_wave) /\ pc' = "done"
         ]_vars

C8_Witness ==
    /\ pc = "done" /\ f_state = "closed"
    /\ Len(chord_frequencies) = 2
    /\ Len(f_frames) = 4 /\ Len(sine_wave) = 4

\* round(a / b) to the nearest integer, b > 0
RoundDiv(a, b) == IF 2 * (a % b) >= b THEN (a \div b) + 1 ELSE a \div b

\* C9: every frame written is round(v * 8000 / 2) of its sample v, and every
\* sample of a call that returns has its frame.
C9_RoundsToNearest ==
    /\ \A k \in 1..Len(f_frames) : f_frames[k] = RoundDiv(sine_wave[k] * 8000, 2 * Unit)
    /\ pc = "done" => Len(f_frames) = Len(sine_wave)

\* C9 as amended: every frame written is v * 8000 / 2 truncated toward zero, a
\* 16-bit value that was not clipped; a sample struct.pack cannot take (any float
\* where the interpreter's struct does not coerce, else a value outside the 16-bit
\* range) raises struct.error in place of a frame; a call that returns has
\* written the frame of every sample.
C9_TruncatesTowardZero ==
    /\ Len(f_frames) <= Len(sine_wave)
    /\ \A k \in 1..Len(f_frames) :
          LET num == sine_wave[k] * 8000
              den == 2 * Unit
          IN  /\ f_frames[k] \in -32768..32767
              /\ (num >= 0 => f_frames[k] >= 0) /\ (num <= 0 => f_frames[k] <= 0)
              /\ Abs(f_frames[k]) * den <= Abs(num)
              /\ Abs(num) < (Abs(f_frames[k]) + 1) * den
    /\ pc = "done" => Len(f_frames) = Len(sine_wave)
    /\ (pc = "raised" /\ raised # "ValueError")
          => /\ Len(f_frames) < Len(sine_wave)
             /\ \/ ~coerces
                \/ Abs(sine_wave[Len(f_frames) + 1] * 8000) >= 32768 * 2 * Unit

C9_Witness ==
    /\ pc = "done"
    /\ \E k \in 1..Len(f_frames) : sine_wave[k] = 707 /\ f_frames[k] = 282
    /\ \E k \in 1..Len(f_frames) : sine_wave[k] = -1293 /\ f_frames[k] = -517

\* every chord has default weights or explicit weights of absolute sum <= 1
QuietWeights ==
    \A k \in 1..Len(chord_frequencies) :
        HasEntry(k) => AbsSum(weights[1][k][1]) <= WUnit

\* C10: with default weights, or explicit weights of absolute sum at most 1 per
\* chord, every sample is in [-1, 1], every scaled value in [-4000, 4000], and no
\* struct.error for a value out of the 16-bit range is raised; such an error needs
\* an explicit weight vector.
C10_NoOverflow ==
    /\ QuietWeights
          => /\ \A k \in 1..Len(sine_wave) :
                   /\ Abs(sine_wave[k]) <= Unit
                   /\ Abs(sine_wave[k] * 8000) <= 4000 * 2 * Unit
             /\ \A k \in 1..Len(f_frames) : Abs(f_frames[k]) <= 4000
             /\ (raised # "" /\ raised # "ValueError") => ~coerces
    /\ (coerces /\ raised # "" /\ raised # "ValueError")
          => \E k \in 1..Len(chord_frequencies) : HasEntry(k)

C10_Witness ==
    /\ pc = "done" /\ weights = None
    /\ \E k \in 1..Len(f_frames) : sine_wave[k] = Unit /\ f_frames[k] = 4000

====
